---- MODULE Spec2Model ----
(***************************************************************************)
(* Model of the two API handlers of ribbit-next-app that front the         *)
(* Firebase realtime database:                                             *)
(*   - the User Event Recorder  (src/src/pages/api/kintone/user.ts)        *)
(*   - the Counter/Summary Reader (src/unnamed/part_000)                   *)
(* Every store operation (get / set / update) is one atomic step of the    *)
(* remote store; the code between two awaits runs inside the step that     *)
(* resumes it.  Requests interleave at their awaits.                       *)
(***************************************************************************)
EXTENDS Integers, Sequences, FiniteSets, TLC

\* ------------------------------------------------------------------ bounds
MaxReqs == 2          \* requests received in one behaviour of Spec
MaxSeqReqs == 2       \* requests received in one behaviour of SpecSeq
MaxFailures == 1      \* store operations that reject in one behaviour
MaxPairReqs == 3      \* requests received in one behaviour of SpecPair
MaxTicks == 1         \* clock advances in one behaviour
StartHour == 18       \* local time (hours since day 0, 00:00) at Init
TickHours == 6        \* hours the clock advances per Tick

\* ------------------------------------------------------------- characters
\* Strings the code inspects character by character are sequences of
\* one-character strings.
DOT == "."
SentinelHost == <<"_", "_", "_", "u", "n", "d", "e", "f", "i", "n", "e", "d">>
DotS == <<".", "s">>
DotCybozuDotCom == <<".", "c", "y", "b", "o", "z", "u", ".", "c", "o", "m">>
DotKintoneDotCom == <<".", "k", "i", "n", "t", "o", "n", "e", ".", "c", "o", "m">>
DotReplacement == <<"_", "d", "o", "t", "_">>
FooCybozuCom == <<"f", "o", "o">> \o DotCybozuDotCom
NoHostname == <<>>
FooSKintoneCom == <<"f", "o", "o">> \o DotS \o DotKintoneDotCom
ABCybozuCom == <<"a", ".", "b">> \o DotCybozuDotCom
ACybozuComB == <<"a">> \o DotCybozuDotCom \o <<".", "b">>
AKintoneComCybozuCom == <<"a">> \o DotKintoneDotCom \o DotCybozuDotCom

IsAt(s, p, i) == /\ i + Len(p) - 1 <= Len(s)
                 /\ SubSeq(s, i, i + Len(p) - 1) = p

\* Length of the match of /(\.s)?\.(cybozu|kintone)\.com/ starting at i, 0 if
\* there is none.  The optional group is greedy and backtracks.
DomainLenAt(s, i) ==
    IF IsAt(s, DotCybozuDotCom, i) THEN Len(DotCybozuDotCom)
    ELSE IF IsAt(s, DotKintoneDotCom, i) THEN Len(DotKintoneDotCom)
    ELSE 0

MatchLenAt(s, i) ==
    IF IsAt(s, DotS, i) /\ DomainLenAt(s, i + Len(DotS)) > 0
    THEN Len(DotS) + DomainLenAt(s, i + Len(DotS))
    ELSE DomainLenAt(s, i)

\* String.prototype.replace with a non-global regex: the leftmost match only.
ReplaceFirstSuffix(s) ==
    LET hits == {i \in 1..Len(s) : MatchLenAt(s, i) > 0}
    IN IF hits = {} THEN s
       ELSE LET i == CHOOSE j \in hits : \A k \in hits : j <= k
            IN SubSeq(s, 1, i - 1) \o SubSeq(s, i + MatchLenAt(s, i), Len(s))

\* replace(/\./g, '_dot_')
RECURSIVE ReplaceDots(_)
ReplaceDots(s) ==
    IF s = <<>> THEN <<>>
    ELSE (IF Head(s) = DOT THEN DotReplacement ELSE <<Head(s)>>)
         \o ReplaceDots(Tail(s))

\* const hostname = body.hostname || '___undefined'; then the two replaces
FormatHostname(hostname) ==
    LET h == IF hostname = NoHostname THEN SentinelHost ELSE hostname
    IN ReplaceDots(ReplaceFirstSuffix(h))

\* ------------------------------------------------------------------ dates
\* DateTime.toISODate(): the calendar date of an instant, as a day number
ToISODate(t) == t \div 24
\* DateTime.toUnixInteger(): seconds
ToUnixInteger(t) == t * 60 * 60
SummaryOffsetHours == 9
\* DateTime.local().plus({ hours: 9 })
PlusOffset(t) == t + SummaryOffsetHours

\* --------------------------------------------------------- request bodies
\* pluginNames absent from the body
NoPlugins == <<"#absent">>
PluginsOf(body) == IF body.pluginNames = NoPlugins THEN <<>> ELSE body.pluginNames

ObjBody(h, p) == [json |-> "object", hostname |-> h, pluginNames |-> p]
NullBody == [json |-> "null", hostname |-> NoHostname, pluginNames |-> NoPlugins]
MalformedBody == [json |-> "malformed", hostname |-> NoHostname, pluginNames |-> NoPlugins]
NoBody == [json |-> "none", hostname |-> NoHostname, pluginNames |-> NoPlugins]

Bodies == {MalformedBody, NullBody,
           ObjBody(FooCybozuCom, NoPlugins),
           ObjBody(FooCybozuCom, <<"p">>)}

SeqBodies == {MalformedBody, NullBody,
              ObjBody(FooCybozuCom, <<"p">>),
              ObjBody(FooCybozuCom, <<"q">>),
              ObjBody(FooCybozuCom, <<"q", "q">>),
              ObjBody(NoHostname, NoPlugins)}

PairBodies == {ObjBody(FooCybozuCom, NoPlugins), ObjBody(FooCybozuCom, <<"p">>)}

\* Bodies whose hostnames exercise the host id derivation
Hostnames == {FooCybozuCom, FooSKintoneCom, ABCybozuCom, ACybozuComB,
              AKintoneComCybozuCom, NoHostname}
HostBodies == {MalformedBody, NullBody, ObjBody(FooCybozuCom, NoPlugins)}
                \cup {ObjBody(h, <<"p">>) : h \in Hostnames}

HostIds == {FormatHostname(b.hostname) : b \in (Bodies \cup SeqBodies \cup HostBodies)}

Hosts == HostIds
Dates == 0..ToISODate(PlusOffset(StartHour + MaxTicks * TickHours))

\* ------------------------------------------------------------------ state
VARIABLES
    users,          \* kintone/users/{hostId}
    counter,        \* kintone/counter/{hostId}
    installDate,    \* kintone/installDate/{hostId}
    lastModified,   \* kintone/lastModified/{hostId}
    summary,        \* kintone/summary/{isoDate}
    req,            \* the requests: position, locals, response
    clock,          \* local time, in hours
    failures,       \* store operations rejected so far
    ticks,          \* clock advances so far
    arrivals,       \* requests received so far
    \* what has happened so far, for the properties
    recvCount,      \* per host: Recorder calls received (POST, JSON object)
    requested,      \* per host: plugin names those calls carried
    repeated,       \* per host: one of those calls carried a name twice
    lastRecvDate,   \* per host: local date of the latest of those calls
    hostFailed,     \* hosts with a rejected store operation in updateRtdb
    callDates,      \* local dates on which some call was running
    readerDates,    \* local dates on which a GET Reader call was running
    aheadDates      \* dates 9 hours ahead of the local time at which a POST
                    \* Recorder call was running

store == <<users, counter, installDate, lastModified, summary>>
budget == <<failures, ticks, arrivals>>
perHost == <<recvCount, requested, repeated, lastRecvDate>>
dates == <<callDates, readerDates, aheadDates>>
vars == <<users, counter, installDate, lastModified, summary, req, clock,
          failures, ticks, arrivals, recvCount, requested, repeated,
          lastRecvDate, hostFailed, callDates, readerDates, aheadDates>>

\* A path with no value: snapshot.exists() is false
Missing == [exists |-> FALSE, val |-> 0]
Val(v) == [exists |-> TRUE, val |-> v]
NoUser == [exists |-> FALSE, name |-> "", pluginNames |-> <<>>]
NoSummary == [exists |-> FALSE, unixTime |-> 0, numUsers |-> 0, counter |-> 0]
\* kintone/counter read as one mapping hostId -> count; the empty mapping is
\* the absent path (snapshot.val() is null)
NoCounters == [h \in {} |-> 0]
CounterMapping == [h \in {x \in Hosts : counter[x].exists} |-> counter[h].val]

RECURSIVE SumOver(_, _)
SumOver(f, S) ==
    IF S = {} THEN 0
    ELSE LET x == CHOOSE y \in S : TRUE IN f[x] + SumOver(f, S \ {x})
\* Object.values(data).reduce((acc, count) => acc + count, 0)
Sum(f) == SumOver(f, DOMAIN f)
\* Object.values(data).length
NumEntries(f) == Cardinality(DOMAIN f)

Range(s) == {s[i] : i \in 1..Len(s)}
\* [...new Set(list)]: first occurrences, in order
RECURSIVE Dedup(_)
Dedup(s) ==
    IF s = <<>> THEN <<>>
    ELSE LET init == Dedup(SubSeq(s, 1, Len(s) - 1))
             last == s[Len(s)]
         IN IF last \in Range(init) THEN init ELSE Append(init, last)

IdleReq ==
    [kind |-> "none", method |-> "none", body |-> NoBody, pc |-> "idle",
     hostId |-> <<>>, now |-> 0, registered |-> <<>>, cnt |-> Missing,
     causedError |-> FALSE, status |-> 0, result |-> "none",
     counter |-> 0, numUsers |-> 0, thrown |-> FALSE, gas |-> <<>>,
     spc |-> "none", snow |-> 0, counters |-> NoCounters,
     steps |-> <<>>, failed |-> {}, touched |-> FALSE, wrote |-> NoSummary,
     read |-> Missing]

TypeOK ==
    /\ \A h \in Hosts : counter[h].exists => counter[h].val \in Nat
    /\ DOMAIN summary = Dates
    /\ clock \in Nat
    /\ failures \in 0..MaxFailures

InitStore ==
    /\ users = [h \in Hosts |-> NoUser]
    /\ counter = [h \in Hosts |-> Missing]
    /\ installDate = [h \in Hosts |-> Missing]
    /\ lastModified = [h \in Hosts |-> Missing]
    /\ summary = [d \in Dates |-> NoSummary]

InitEnv ==
    /\ clock = StartHour
    /\ failures = 0
    /\ ticks = 0
    /\ arrivals = 0
    /\ recvCount = [h \in Hosts |-> 0]
    /\ requested = [h \in Hosts |-> {}]
    /\ repeated = [h \in Hosts |-> FALSE]
    /\ lastRecvDate = [h \in Hosts |-> 0]
    /\ hostFailed = {}
    /\ callDates = {}
    /\ readerDates = {}
    /\ aheadDates = {}

\* Two handler invocations can run at once
Init == InitStore /\ InitEnv /\ req = [r \in 1..2 |-> IdleReq]
\* One handler invocation runs at a time
InitSeq == InitStore /\ InitEnv /\ req = [r \in 1..1 |-> IdleReq]

Reqs == DOMAIN req

Set(r, rec) == req' = [req EXCEPT ![r] = rec]
\* A handler invocation is running: its handler has not returned, or its
\* floating updateSummary promise has not settled
MainActive(rec) == rec.pc \notin {"idle", "done"}
SummaryActive(rec) == rec.spc \in {"s_get", "s_cget", "s_set"}
Active(rec) == MainActive(rec) \/ SummaryActive(rec)
\* A request is received by the lowest slot with no invocation running
Fresh(r, max) ==
    /\ arrivals < max
    /\ ~Active(req[r])
    /\ \A q \in Reqs : q < r => Active(req[q])

\* A call is received now
Called(reader, recorder) ==
    /\ arrivals' = arrivals + 1
    /\ callDates' = callDates \cup {ToISODate(clock)}
    /\ readerDates' = IF reader THEN readerDates \cup {ToISODate(clock)}
                      ELSE readerDates
    /\ aheadDates' = IF recorder THEN aheadDates \cup {ToISODate(PlusOffset(clock))}
                     ELSE aheadDates

\* ------------------------------------------------- Recorder: the handler
\* res.status(...).json(...)
Respond(rec, status, result) == [rec EXCEPT !.status = status, !.result = result]

\* The summary date taken from the local time as it is
SummaryNowNoOffset(t) == t

\* const now = DateTime.local().plus({ hours: 9 })
SummaryNow(t) == PlusOffset(t)

\* updateSummary() up to its first await: the clock is read, the summary
\* read is issued, the promise is left floating (user.ts line 31)
StartSummary(rec) == [rec EXCEPT !.spc = "s_get", !.snow = SummaryNow(clock)]

\* The handler once updateRtdb has settled (user.ts lines 26-42), up to its
\* next await or its end.  gasEndPoint: process.env.GAS_END_POINT is set when
\* postToGAS reads it
AfterRtdb(rec, causedError, gasEndPoint) ==
    LET a == StartSummary([rec EXCEPT !.causedError = causedError,
                                      !.registered = <<>>, !.cnt = Missing])
    IN IF ~causedError
       THEN [Respond(a, 200, "added") EXCEPT !.pc = "done"]
       ELSE IF ~gasEndPoint
            THEN [Respond(a, 500, "unexpected") EXCEPT !.pc = "done"]
            ELSE [a EXCEPT !.pc = "gas",
                           !.gas = Append(a.gas, [body |-> a.body,
                                                  from |-> "ribbit-next-app"])]

\* A request whose method is not POST: the handler does nothing and returns
RecorderOtherMethod(r, max) ==
    /\ Fresh(r, max)
    /\ Set(r, [IdleReq EXCEPT !.kind = "recorder", !.method = "GET", !.pc = "done"])
    /\ Called(FALSE, FALSE)
    /\ UNCHANGED <<store, clock, failures, ticks, perHost, hostFailed>>

\* JSON.parse moved inside the inner try: the parse error only sets causedError
RecorderMalformedCaughtInside(r, B, max) ==
    /\ Fresh(r, max)
    /\ MalformedBody \in B
    /\ \E gasEndPoint \in BOOLEAN :
         Set(r, AfterRtdb([IdleReq EXCEPT !.kind = "recorder", !.method = "POST",
                                         !.body = MalformedBody], TRUE, gasEndPoint))
    /\ Called(FALSE, TRUE)
    /\ UNCHANGED <<store, clock, failures, ticks, perHost, hostFailed>>

\* JSON.parse throws: the outer catch answers 500 and rethrows
RecorderMalformed(r, B, max) ==
    /\ Fresh(r, max)
    /\ MalformedBody \in B
    /\ Set(r, [Respond(IdleReq, 500, "unexpectedWithError") EXCEPT
                 !.kind = "recorder", !.method = "POST", !.body = MalformedBody,
                 !.thrown = TRUE, !.pc = "done"])
    /\ Called(FALSE, TRUE)
    /\ UNCHANGED <<store, clock, failures, ticks, perHost, hostFailed>>

\* The body is the JSON literal null: body.hostname throws a TypeError in
\* updateRtdb before any store operation
RecorderNullBody(r, B, max) ==
    /\ Fresh(r, max)
    /\ NullBody \in B
    /\ \E gasEndPoint \in BOOLEAN :
         Set(r, AfterRtdb([IdleReq EXCEPT !.kind = "recorder", !.method = "POST",
                                         !.body = NullBody], TRUE, gasEndPoint))
    /\ Called(FALSE, TRUE)
    /\ UNCHANGED <<store, clock, failures, ticks, perHost, hostFailed>>

\* A JSON object: updateRtdb runs up to the first store read of updateUser
RecorderStart(r, B, max) ==
    /\ Fresh(r, max)
    /\ \E body \in {b \in B : b.json = "object"} :
         LET h == FormatHostname(body.hostname)
             names == PluginsOf(body)
         IN /\ Set(r, [IdleReq EXCEPT !.kind = "recorder", !.method = "POST",
                                      !.body = body,
                                      !.hostId = h,
                                      !.now = clock,
                                      !.steps = <<"user">>,
                                      !.pc = "u_get"])
            /\ recvCount' = [recvCount EXCEPT ![h] = @ + 1]
            /\ requested' = [requested EXCEPT ![h] = @ \cup Range(names)]
            /\ repeated' = [repeated EXCEPT ![h] =
                              @ \/ Cardinality(Range(names)) < Len(names)]
            /\ lastRecvDate' = [lastRecvDate EXCEPT ![h] = ToISODate(clock)]
    /\ Called(FALSE, TRUE)
    /\ UNCHANGED <<store, clock, failures, ticks, hostFailed>>

\* ---------------------------------------------- Recorder: updateRtdb steps
At(r, pc) == req[r].pc = pc
\* The invocation performs a store operation
Op(rec) == [rec EXCEPT !.touched = TRUE]
Enter(rec, step, pc) == [rec EXCEPT !.steps = Append(@, step), !.pc = pc]

\* updateUser: const snapshot = await get(reference), and the branch taken
UserGet(r) ==
    /\ At(r, "u_get")
    /\ LET h == req[r].hostId
           pluginNames == PluginsOf(req[r].body)
           registered == users[h].pluginNames
           noChanges == \A i \in 1..Len(pluginNames) :
                           pluginNames[i] \in Range(registered)
       IN Set(r, IF ~users[h].exists THEN [Op(req[r]) EXCEPT !.pc = "u_set"]
                 ELSE IF ~noChanges
                      THEN [Op(req[r]) EXCEPT !.pc = "u_update",
                                              !.registered = registered]
                      ELSE Enter(Op(req[r]), "counter", "c_get"))
    /\ UNCHANGED <<store, clock, budget, perHost, hostFailed, dates>>

\* await set(reference, { name: '', pluginNames: body.pluginNames || [] })
UserSet(r) ==
    /\ At(r, "u_set")
    /\ users' = [users EXCEPT ![req[r].hostId] =
                   [exists |-> TRUE, name |-> "",
                    pluginNames |-> PluginsOf(req[r].body)]]
    /\ Set(r, Enter(Op(req[r]), "counter", "c_get"))
    /\ UNCHANGED <<counter, installDate, lastModified, summary, clock,
                   budget, perHost, hostFailed, dates>>

\* [...new Set([...pluginNames, ...registered])]
MergedPlugins(pluginNames, registered) == Dedup(pluginNames \o registered)

\* await update(reference, { pluginNames: [...new Set([...pluginNames, ...registered])] })
UserUpdate(r) ==
    /\ At(r, "u_update")
    /\ users' = [users EXCEPT ![req[r].hostId] =
                   [exists |-> TRUE, name |-> @.name,
                    pluginNames |-> MergedPlugins(PluginsOf(req[r].body),
                                                  req[r].registered)]]
    /\ Set(r, [Enter(Op(req[r]), "counter", "c_get") EXCEPT !.registered = <<>>])
    /\ UNCHANGED <<counter, installDate, lastModified, summary, clock,
                   budget, perHost, hostFailed, dates>>

\* updateCounter: const counterSnapshot = await get(counterRef)
CounterGet(r) ==
    /\ At(r, "c_get")
    /\ Set(r, [Op(req[r]) EXCEPT !.cnt = counter[req[r].hostId],
                                 !.read = counter[req[r].hostId], !.pc = "c_set"])
    /\ UNCHANGED <<store, clock, budget, perHost, hostFailed, dates>>

\* A counter that restarts at 1 on every call
NextCountAlwaysOne(snapshot) == 1

\* The value updateCounter writes for a snapshot
NextCount(snapshot) == IF snapshot.exists THEN snapshot.val + 1 ELSE 1

\* The increment done by the store on its current value (a transaction)
CounterSetInStore(r) ==
    /\ At(r, "c_set")
    /\ counter' = [counter EXCEPT ![req[r].hostId] = Val(NextCount(@))]
    /\ Set(r, [Enter(Op(req[r]), "installDate", "i_get") EXCEPT !.cnt = Missing])
    /\ UNCHANGED <<users, installDate, lastModified, summary, clock,
                   budget, perHost, hostFailed, dates>>

\* await set(counterRef, ...)
CounterSet(r) ==
    /\ At(r, "c_set")
    /\ counter' = [counter EXCEPT ![req[r].hostId] = Val(NextCount(req[r].cnt))]
    /\ Set(r, [Enter(Op(req[r]), "installDate", "i_get") EXCEPT !.cnt = Missing])
    /\ UNCHANGED <<users, installDate, lastModified, summary, clock,
                   budget, perHost, hostFailed, dates>>

\* updateInstallDate: const installDateSnapshot = await get(installDateRef)
InstallDateGet(r) ==
    /\ At(r, "i_get")
    /\ Set(r, IF ~installDate[req[r].hostId].exists
              THEN [Op(req[r]) EXCEPT !.pc = "i_set"]
              ELSE Enter(Op(req[r]), "lastModified", "l_set"))
    /\ UNCHANGED <<store, clock, budget, perHost, hostFailed, dates>>

\* await set(installDateRef, now.toISODate())
InstallDateSet(r) ==
    /\ At(r, "i_set")
    /\ installDate' = [installDate EXCEPT ![req[r].hostId] =
                         Val(ToISODate(req[r].now))]
    /\ Set(r, Enter(Op(req[r]), "lastModified", "l_set"))
    /\ UNCHANGED <<users, counter, lastModified, summary, clock,
                   budget, perHost, hostFailed, dates>>

\* await set(ref(rtdb, `kintone/lastModified/${formattedHostname}`), now.toISODate()),
\* after which updateRtdb returns and the handler goes on
LastModifiedSet(r) ==
    /\ At(r, "l_set")
    /\ lastModified' = [lastModified EXCEPT ![req[r].hostId] =
                          Val(ToISODate(req[r].now))]
    /\ Set(r, AfterRtdb(Op(req[r]), FALSE, FALSE))
    /\ UNCHANGED <<users, counter, installDate, summary, clock,
                   budget, perHost, hostFailed, dates>>

\* The step of updateRtdb a position belongs to
StepOf(pc) ==
    CASE pc \in {"u_get", "u_set", "u_update"} -> "user"
      [] pc \in {"c_get", "c_set"} -> "counter"
      [] pc \in {"i_get", "i_set"} -> "installDate"
      [] pc = "l_set" -> "lastModified"

\* One try/catch around all the steps: a rejection ends updateRtdb
StepCaughtAborts(rec) ==
    AfterRtdb([Op(rec) EXCEPT !.failed = @ \cup {StepOf(rec.pc)}], FALSE, FALSE)

\* A store operation of updateRtdb rejects: the try/catch around the step
\* logs it and updateRtdb goes on with the next step (user.ts lines 59-93)
StepCaught(rec) ==
    LET f == [Op(rec) EXCEPT !.failed = @ \cup {StepOf(rec.pc)},
                             !.registered = <<>>, !.cnt = Missing]
    IN CASE StepOf(rec.pc) = "user" -> Enter(f, "counter", "c_get")
         [] StepOf(rec.pc) = "counter" -> Enter(f, "installDate", "i_get")
         [] StepOf(rec.pc) = "installDate" -> Enter(f, "lastModified", "l_set")
         [] StepOf(rec.pc) = "lastModified" -> AfterRtdb(f, FALSE, FALSE)

RtdbPcs == {"u_get", "u_set", "u_update", "c_get", "c_set", "i_get", "i_set", "l_set"}

RecorderStoreRejects(r) ==
    /\ req[r].pc \in RtdbPcs
    /\ failures < MaxFailures
    /\ failures' = failures + 1
    /\ Set(r, StepCaught(req[r]))
    /\ hostFailed' = hostFailed \cup {req[r].hostId}
    /\ UNCHANGED <<store, clock, ticks, arrivals, perHost, dates>>

\* postToGAS: the fetch resolves; the handler answers 500
GasResolves(r) ==
    /\ At(r, "gas")
    /\ Set(r, [Respond(req[r], 500, "unexpected") EXCEPT !.pc = "done"])
    /\ UNCHANGED <<store, clock, budget, perHost, hostFailed, dates>>

\* postToGAS: the fetch rejects; the outer catch answers 500 and rethrows
GasRejects(r) ==
    /\ At(r, "gas")
    /\ Set(r, [Respond(req[r], 500, "unexpectedWithError") EXCEPT
                 !.thrown = TRUE, !.pc = "done"])
    /\ UNCHANGED <<store, clock, budget, perHost, hostFailed, dates>>

\* ------------------------------------------ Recorder: updateSummary (floating)
SummaryRecord(now, counters) ==
    [exists |-> TRUE, unixTime |-> ToUnixInteger(now),
     numUsers |-> NumEntries(counters), counter |-> Sum(counters)]

\* const summarySnapshot = await get(summaryRef); return if it exists
SummaryGet(r) ==
    /\ req[r].spc = "s_get"
    /\ Set(r, [Op(req[r]) EXCEPT !.spc =
                 IF summary[ToISODate(req[r].snow)].exists THEN "done" ELSE "s_cget"])
    /\ UNCHANGED <<store, clock, budget, perHost, hostFailed, dates>>

\* const counterSnapshot = await get(counterRef); return if it does not exist
SummaryCounterGet(r) ==
    /\ req[r].spc = "s_cget"
    /\ Set(r, IF CounterMapping = NoCounters
              THEN [Op(req[r]) EXCEPT !.spc = "done"]
              ELSE [Op(req[r]) EXCEPT !.spc = "s_set", !.counters = CounterMapping])
    /\ UNCHANGED <<store, clock, budget, perHost, hostFailed, dates>>

\* await set(summaryRef, { unixTime, numUsers: counters.length, counter: sum })
SummarySet(r) ==
    /\ req[r].spc = "s_set"
    /\ LET rec == SummaryRecord(req[r].snow, req[r].counters)
       IN /\ summary' = [summary EXCEPT ![ToISODate(req[r].snow)] = rec]
          /\ Set(r, [Op(req[r]) EXCEPT !.spc = "done", !.wrote = rec,
                                       !.counters = NoCounters])
    /\ UNCHANGED <<users, counter, installDate, lastModified, clock,
                   budget, perHost, hostFailed, dates>>

\* A store operation of updateSummary rejects: nothing awaits the promise,
\* the rejection is unhandled
SummaryRejects(r) ==
    /\ req[r].spc \in {"s_get", "s_cget", "s_set"}
    /\ failures < MaxFailures
    /\ failures' = failures + 1
    /\ Set(r, [Op(req[r]) EXCEPT !.spc = "rejected", !.counters = NoCounters])
    /\ UNCHANGED <<store, clock, ticks, arrivals, perHost, hostFailed, dates>>

\* ------------------------------------------------------------------ Reader
\* res.status(200).json(responseData)
ReaderResponse(rec) ==
    [Respond(rec, 200, "fetched") EXCEPT !.counter = Sum(rec.counters),
                                         !.numUsers = NumEntries(rec.counters),
                                         !.pc = "done"]

\* The 400 is sent but the return is missing: the handler goes on
ReaderOtherMethodFallsThrough(r, max) ==
    /\ Fresh(r, max)
    /\ Set(r, [Respond(IdleReq, 400, "invalidParameter") EXCEPT
                 !.kind = "reader", !.method = "POST", !.pc = "r_cget"])
    /\ Called(FALSE, FALSE)
    /\ UNCHANGED <<store, clock, failures, ticks, perHost, hostFailed>>

\* req.method !== 'GET': 400 and return
ReaderOtherMethod(r, max) ==
    /\ Fresh(r, max)
    /\ Set(r, [Respond(IdleReq, 400, "invalidParameter") EXCEPT
                 !.kind = "reader", !.method = "POST", !.pc = "done"])
    /\ Called(FALSE, FALSE)
    /\ UNCHANGED <<store, clock, failures, ticks, perHost, hostFailed>>

\* getResponseFromRtdb up to its first await
ReaderStart(r, max) ==
    /\ Fresh(r, max)
    /\ Set(r, [IdleReq EXCEPT !.kind = "reader", !.method = "GET", !.pc = "r_cget"])
    /\ Called(TRUE, FALSE)
    /\ UNCHANGED <<store, clock, failures, ticks, perHost, hostFailed>>

\* An absent mapping read as an empty one (snapshot.val() || {})
ReaderCounterGetDefaultsEmpty(r) ==
    /\ At(r, "r_cget")
    /\ Set(r, [Op(req[r]) EXCEPT !.counters = CounterMapping,
                                 !.snow = clock, !.pc = "r_sget"])
    /\ UNCHANGED <<store, clock, budget, perHost, hostFailed, dates>>

\* const snapshot = await get(counterRef); Object.values(snapshot.val()) throws
\* on null; otherwise the clock is read and the summary read is issued
ReaderCounterGet(r) ==
    /\ At(r, "r_cget")
    /\ Set(r, IF CounterMapping = NoCounters
              THEN [Respond(Op(req[r]), 500, "unexpectedWithError") EXCEPT !.pc = "done"]
              ELSE [Op(req[r]) EXCEPT !.counters = CounterMapping,
                                      !.snow = clock, !.pc = "r_sget"])
    /\ UNCHANGED <<store, clock, budget, perHost, hostFailed, dates>>

\* const summarySnapshot = await get(summaryRef)
ReaderSummaryGet(r) ==
    /\ At(r, "r_sget")
    /\ Set(r, IF summary[ToISODate(req[r].snow)].exists
              THEN ReaderResponse(Op(req[r]))
              ELSE [Op(req[r]) EXCEPT !.pc = "r_sset"])
    /\ UNCHANGED <<store, clock, budget, perHost, hostFailed, dates>>

\* await set(summaryRef, { unixTime, numUsers: counters.length, counter })
ReaderSummarySet(r) ==
    /\ At(r, "r_sset")
    /\ LET rec == SummaryRecord(req[r].snow, req[r].counters)
       IN /\ summary' = [summary EXCEPT ![ToISODate(req[r].snow)] = rec]
          /\ Set(r, ReaderResponse([Op(req[r]) EXCEPT !.wrote = rec]))
    /\ UNCHANGED <<users, counter, installDate, lastModified, clock,
                   budget, perHost, hostFailed, dates>>

\* Every rejection fails the request
ReaderCaughtFails(rec) ==
    [Respond(Op(rec), 500, "unexpectedWithError") EXCEPT
       !.failed = @ \cup {"summary"}, !.pc = "done"]

\* A store operation of the Reader rejects: the counter read fails the
\* request (outer catch, 500); the summary read or write is caught and logged
ReaderCaught(rec) ==
    IF rec.pc = "r_cget"
    THEN [Respond(Op(rec), 500, "unexpectedWithError") EXCEPT !.pc = "done"]
    ELSE ReaderResponse([Op(rec) EXCEPT !.failed = @ \cup {"summary"}])

ReaderStoreRejects(r) ==
    /\ req[r].pc \in {"r_cget", "r_sget", "r_sset"}
    /\ failures < MaxFailures
    /\ failures' = failures + 1
    /\ Set(r, ReaderCaught(req[r]))
    /\ UNCHANGED <<store, clock, ticks, arrivals, perHost, hostFailed, dates>>

\* --------------------------------------------------------------- the clock
Tick ==
    /\ ticks < MaxTicks
    /\ ticks' = ticks + 1
    /\ clock' = clock + TickHours
    /\ LET running == {q \in Reqs : Active(req[q])}
           at == ToISODate(clock')
       IN /\ callDates' = IF running # {} THEN callDates \cup {at} ELSE callDates
          /\ readerDates' =
               IF \E q \in running : req[q].kind = "reader"
               THEN readerDates \cup {at} ELSE readerDates
          /\ aheadDates' =
               IF \E q \in running : req[q].kind = "recorder"
               THEN aheadDates \cup {ToISODate(PlusOffset(clock'))} ELSE aheadDates
    /\ UNCHANGED <<store, req, failures, arrivals, perHost, hostFailed>>

\* ---------------------------------------------------------- specifications
Steps ==
    \/ \E r \in Reqs : UserGet(r)
    \/ \E r \in Reqs : UserSet(r)
    \/ \E r \in Reqs : UserUpdate(r)
    \/ \E r \in Reqs : CounterGet(r)
    \/ \E r \in Reqs : CounterSet(r)
    \/ \E r \in Reqs : InstallDateGet(r)
    \/ \E r \in Reqs : InstallDateSet(r)
    \/ \E r \in Reqs : LastModifiedSet(r)
    \/ \E r \in Reqs : RecorderStoreRejects(r)
    \/ \E r \in Reqs : GasResolves(r)
    \/ \E r \in Reqs : GasRejects(r)
    \/ \E r \in Reqs : SummaryGet(r)
    \/ \E r \in Reqs : SummaryCounterGet(r)
    \/ \E r \in Reqs : SummarySet(r)
    \/ \E r \in Reqs : SummaryRejects(r)
    \/ \E r \in Reqs : ReaderCounterGet(r)
    \/ \E r \in Reqs : ReaderSummaryGet(r)
    \/ \E r \in Reqs : ReaderSummarySet(r)
    \/ \E r \in Reqs : ReaderStoreRejects(r)
    \/ Tick

\* Requests arrive at any time: two invocations can overlap
Next ==
    \/ \E r \in Reqs : RecorderOtherMethod(r, MaxReqs)
    \/ \E r \in Reqs : RecorderMalformed(r, Bodies, MaxReqs)
    \/ \E r \in Reqs : RecorderNullBody(r, Bodies, MaxReqs)
    \/ \E r \in Reqs : RecorderStart(r, Bodies, MaxReqs)
    \/ \E r \in Reqs : ReaderOtherMethod(r, MaxReqs)
    \/ \E r \in Reqs : ReaderStart(r, MaxReqs)
    \/ Steps
Spec == Init /\ [][Next]_vars

\* Sequential calls: a request arrives only when the invocation before it has
\* nothing left running
NextSeq ==
    \/ \E r \in Reqs : RecorderOtherMethod(r, MaxSeqReqs)
    \/ \E r \in Reqs : RecorderMalformed(r, SeqBodies, MaxSeqReqs)
    \/ \E r \in Reqs : RecorderNullBody(r, SeqBodies, MaxSeqReqs)
    \/ \E r \in Reqs : RecorderStart(r, SeqBodies, MaxSeqReqs)
    \/ \E r \in Reqs : ReaderOtherMethod(r, MaxSeqReqs)
    \/ \E r \in Reqs : ReaderStart(r, MaxSeqReqs)
    \/ Steps
SpecSeq == InitSeq /\ [][NextSeq]_vars

\* Two invocations can overlap; every store operation succeeds and the clock
\* stands still
NextPair ==
    \/ \E r \in Reqs : RecorderStart(r, PairBodies, MaxPairReqs)
    \/ \E r \in Reqs : ReaderStart(r, MaxPairReqs)
    \/ \E r \in Reqs : UserGet(r)
    \/ \E r \in Reqs : UserSet(r)
    \/ \E r \in Reqs : UserUpdate(r)
    \/ \E r \in Reqs : CounterGet(r)
    \/ \E r \in Reqs : CounterSet(r)
    \/ \E r \in Reqs : InstallDateGet(r)
    \/ \E r \in Reqs : InstallDateSet(r)
    \/ \E r \in Reqs : LastModifiedSet(r)
    \/ \E r \in Reqs : SummaryGet(r)
    \/ \E r \in Reqs : SummaryCounterGet(r)
    \/ \E r \in Reqs : SummarySet(r)
    \/ \E r \in Reqs : ReaderCounterGet(r)
    \/ \E r \in Reqs : ReaderSummaryGet(r)
    \/ \E r \in Reqs : ReaderSummarySet(r)
SpecPair == Init /\ [][NextPair]_vars

\* Every handler invocation so far has returned (its response, if any, is sent)
HandlersReturned == \A q \in Reqs : ~MainActive(req[q])

\* Back-to-back requests: a request arrives only after the handler of the one
\* before it has returned; a floating updateSummary can still be running
NextBackToBack ==
    \/ \E r \in Reqs : HandlersReturned /\ RecorderOtherMethod(r, MaxReqs)
    \/ \E r \in Reqs : HandlersReturned /\ RecorderMalformed(r, Bodies, MaxReqs)
    \/ \E r \in Reqs : HandlersReturned /\ RecorderNullBody(r, Bodies, MaxReqs)
    \/ \E r \in Reqs : HandlersReturned /\ RecorderStart(r, Bodies, MaxReqs)
    \/ \E r \in Reqs : HandlersReturned /\ ReaderOtherMethod(r, MaxReqs)
    \/ \E r \in Reqs : HandlersReturned /\ ReaderStart(r, MaxReqs)
    \/ Steps
SpecBackToBack == Init /\ [][NextBackToBack]_vars

\* Sequential calls with the hostnames of Hostnames
NextHost ==
    \/ \E r \in Reqs : RecorderOtherMethod(r, MaxSeqReqs)
    \/ \E r \in Reqs : RecorderMalformed(r, HostBodies, MaxSeqReqs)
    \/ \E r \in Reqs : RecorderNullBody(r, HostBodies, MaxSeqReqs)
    \/ \E r \in Reqs : RecorderStart(r, HostBodies, MaxSeqReqs)
    \/ \E r \in Reqs : ReaderOtherMethod(r, MaxSeqReqs)
    \/ \E r \in Reqs : ReaderStart(r, MaxSeqReqs)
    \/ Steps
SpecHost == InitSeq /\ [][NextHost]_vars

\* ------------------------------------------------------------- properties
AllSteps == <<"user", "counter", "installDate", "lastModified">>
IsPrefix(s, t) == Len(s) <= Len(t) /\ SubSeq(t, 1, Len(s)) = s
NoDuplicates(s) == Cardinality(Range(s)) = Len(s)
\* No Recorder request for host h is between its start and its response
NoneInFlight(h) == \A r \in Reqs : ~(MainActive(req[r]) /\ req[r].hostId = h)
\* The Recorder calls for h so far were all answered with no rejected store
\* operation in their updateRtdb
Settled(h) == recvCount[h] >= 1 /\ NoneInFlight(h) /\ h \notin hostFailed
\* A Recorder request whose body parsed to an object
Recording(rec) == rec.kind = "recorder" /\ rec.body.json = "object"

\* C1: after N >= 1 sequential Recorder calls for a fresh host, every store
\* operation succeeding, counter/{hostId} equals N.
C1_CounterEqualsCalls ==
    \A h \in Hosts : Settled(h) => counter[h] = Val(recvCount[h])

C1_Witness ==
    \E h \in Hosts : Settled(h) /\ recvCount[h] >= 2 /\ counter[h] = Val(recvCount[h])

\* C2 as stated: after sequential Recorder calls for a host with plugin lists
\* P1..Pn, the stored pluginNames holds exactly the names of the union of the
\* Pi and holds no name twice.
C2_Original ==
    \A h \in Hosts :
        Settled(h) => /\ users[h].exists
                      /\ Range(users[h].pluginNames) = requested[h]
                      /\ NoDuplicates(users[h].pluginNames)

\* What does hold of the stored list after sequential calls: its names are the
\* union of the requested names, and a name is stored twice only when a
\* request's own list carried a name twice.
PluginUnionStored ==
    \A h \in Hosts :
        Settled(h) => /\ users[h].exists
                      /\ Range(users[h].pluginNames) = requested[h]
                      /\ (~repeated[h] => NoDuplicates(users[h].pluginNames))

\* C3 as stated: a store failure in a step of updateRtdb of a POST request
\* with a well-formed body makes the handler call the fallback endpoint once,
\* with the body plus `from`, and answer 500.
C3_Original ==
    \A r \in Reqs :
        (Recording(req[r]) /\ req[r].pc = "done" /\ req[r].failed # {})
            => /\ req[r].status = 500
               /\ req[r].gas = <<[body |-> req[r].body, from |-> "ribbit-next-app"]>>

\* What a step of updateRtdb that ran without a rejection leaves behind, for
\* the request of slot r when nothing ran after it
Effect(step, r) ==
    LET h == req[r].hostId
    IN CASE step = "user" ->
              /\ users[h].exists
              /\ Range(PluginsOf(req[r].body)) \subseteq Range(users[h].pluginNames)
         [] step = "counter" -> counter[h].exists /\ counter[h].val >= 1
         [] step = "installDate" -> installDate[h].exists
         [] step = "lastModified" -> lastModified[h] = Val(ToISODate(req[r].now))

\* C4: a store failure in one step of updateRtdb does not abort the later
\* steps: they are attempted, in order, and take effect if their own store
\* operations succeed.
C4_LaterStepsRun ==
    \A r \in Reqs :
        (Recording(req[r]) /\ req[r].failed # {})
            => /\ IsPrefix(req[r].steps, AllSteps)
               /\ MainActive(req[r]) => StepOf(req[r].pc) = req[r].steps[Len(req[r].steps)]
               /\ req[r].pc = "done" =>
                    /\ req[r].steps = AllSteps
                    /\ \A i \in 1..Len(AllSteps) :
                         AllSteps[i] \notin req[r].failed => Effect(AllSteps[i], r)

C4_Witness ==
    \E r \in Reqs : /\ Recording(req[r]) /\ req[r].pc = "done"
                    /\ req[r].failed = {"user"}
                    /\ req[r].steps = AllSteps
                    /\ ~users[req[r].hostId].exists
                    /\ counter[req[r].hostId].exists
                    /\ lastModified[req[r].hostId].exists

\* C5 as stated: once installDate/{hostId} holds a value no later store write
\* changes it, under every interleaving of Recorder requests for that host.
C5_Original ==
    [][\A h \in Hosts : installDate[h].exists => installDate'[h] = installDate[h]]_vars

\* C6 as stated: whenever no Recorder request for a host is in flight and the
\* store writes succeeded, lastModified/{hostId} is the calendar date of the
\* most recently received Recorder call for that host.
C6_Original ==
    \A h \in Hosts : Settled(h) => lastModified[h] = Val(lastRecvDate[h])

\* C7 as stated: summary/{D} is absent until a Reader or Recorder call has
\* occurred on local calendar date D.
C7_Original ==
    \A d \in Dates : summary[d].exists => d \in callDates

\* C7 amended: summary/{D} is absent until a GET Reader call has occurred on
\* local date D, or a POST Recorder call has occurred at a local time whose
\* date 9 hours later is D.
C7_SummaryDates ==
    \A d \in Dates : summary[d].exists => d \in (readerDates \cup aheadDates)

\* A Recorder wrote the summary of a date on which no call has occurred yet
C7_Witness ==
    \E d \in Dates : /\ summary[d].exists
                     /\ d \notin callDates
                     /\ d \in aheadDates
                     /\ \E r \in Reqs : req[r].kind = "recorder" /\ req[r].wrote = summary[d]

\* C8 as stated: a Daily Summary that is written carries the number of hosts
\* with a Host Counter and the sum of the Host Counters in the store at the
\* moment of the write, also when other Recorder requests run concurrently.
C8_Original ==
    [][\A d \in Dates :
         summary'[d] # summary[d] =>
            /\ summary'[d].numUsers = NumEntries(CounterMapping)
            /\ summary'[d].counter = Sum(CounterMapping)]_vars

\* C9: a Reader request whose method is not GET is answered 400 with the fixed
\* message, whatever the store holds, and performs no store operation.
C9_ReaderRejectsMethod ==
    \A r \in Reqs :
        (req[r].kind = "reader" /\ req[r].method # "GET")
            => /\ req[r].pc = "done"
               /\ req[r].status = 400
               /\ req[r].result = "invalidParameter"
               /\ ~req[r].touched
               /\ req[r].wrote = NoSummary

C9_Witness ==
    \E r \in Reqs : /\ req[r].kind = "reader" /\ req[r].method = "POST"
                    /\ req[r].status = 400
                    /\ \E h \in Hosts : counter[h].exists
                    /\ \E d \in Dates : summary[d].exists

\* C10: a GET Reader request that fetched a non-empty counter mapping answers
\* 200 with counter = the sum of the fetched values and numUsers = the number
\* of fetched entries, whether its summary read or write succeeds or rejects;
\* a summary it writes carries the same two values.
C10_ReaderTotals ==
    \A r \in Reqs :
        (req[r].kind = "reader" /\ req[r].method = "GET" /\ req[r].pc = "done"
         /\ req[r].counters # NoCounters)
            => /\ req[r].status = 200
               /\ req[r].result = "fetched"
               /\ req[r].counters = CounterMapping
               /\ req[r].numUsers = Cardinality({h \in Hosts : counter[h].exists})
               /\ req[r].counter = SumOver([h \in Hosts |-> counter[h].val], Hosts)
               /\ req[r].wrote.exists =>
                    /\ req[r].wrote.numUsers = req[r].numUsers
                    /\ req[r].wrote.counter = req[r].counter
                    /\ summary[ToISODate(req[r].snow)] = req[r].wrote

\* The Reader's summary read or write rejected
C10_Witness ==
    \E r \in Reqs : /\ req[r].kind = "reader" /\ req[r].pc = "done"
                    /\ req[r].status = 200
                    /\ "summary" \in req[r].failed
                    /\ req[r].numUsers >= 1
                    /\ req[r].counter >= 1

\* A POST Recorder request whose body parsed (to an object or to null)
Parsed(rec) == rec.kind = "recorder" /\ rec.method = "POST" /\ rec.body.json \in {"object", "null"}

\* C11 as stated: a store failure in the Recorder's Daily Summary step is
\* caught inside the handler and never escapes as an unhandled error, and the
\* response is 200 whenever the host-update sequence did not fail.
C11_Original ==
    \A r \in Reqs :
        Parsed(req[r]) => /\ req[r].spc # "rejected"
                          /\ (req[r].pc = "done" /\ ~req[r].causedError)
                                => req[r].status = 200

\* C12 as stated: in a POST Recorder request the store operations of the
\* Daily Summary step have all completed before the fallback call or the
\* response is issued: none is in flight once the response is sent.
C12_Original ==
    \A r \in Reqs :
        (Parsed(req[r]) /\ (req[r].status # 0 \/ req[r].gas # <<>>))
            => ~SummaryActive(req[r])

\* C13: a POST Recorder request whose body is not valid JSON is answered 500
\* with the serialized error and the handler rethrows; it performs no store
\* operation, starts no Daily Summary step and makes no fallback call.
C13_MalformedBody ==
    \A r \in Reqs :
        (req[r].kind = "recorder" /\ req[r].body = MalformedBody)
            => /\ req[r].pc = "done"
               /\ req[r].status = 500
               /\ req[r].result = "unexpectedWithError"
               /\ req[r].thrown
               /\ ~req[r].touched
               /\ req[r].spc = "none"
               /\ req[r].wrote = NoSummary
               /\ req[r].gas = <<>>

\* The malformed request arrives when the store already holds data
C13_Witness ==
    \E r \in Reqs : /\ req[r].kind = "recorder" /\ req[r].body = MalformedBody
                    /\ req[r].status = 500 /\ req[r].thrown
                    /\ \E h \in Hosts : counter[h].exists

EndsWith(s, suffix) ==
    /\ Len(s) >= Len(suffix)
    /\ SubSeq(s, Len(s) - Len(suffix) + 1, Len(s)) = suffix
DropLast(s, n) == SubSeq(s, 1, Len(s) - n)
\* The host id as the claim describes it: the trailing suffix, if the hostname
\* ends with one, removed (the `.s` form first), then every `.` replaced
StripTrailingSuffix(s) ==
    IF EndsWith(s, DotS \o DotCybozuDotCom) THEN DropLast(s, Len(DotS \o DotCybozuDotCom))
    ELSE IF EndsWith(s, DotS \o DotKintoneDotCom) THEN DropLast(s, Len(DotS \o DotKintoneDotCom))
    ELSE IF EndsWith(s, DotCybozuDotCom) THEN DropLast(s, Len(DotCybozuDotCom))
    ELSE IF EndsWith(s, DotKintoneDotCom) THEN DropLast(s, Len(DotKintoneDotCom))
    ELSE s
SuffixAnchoredHostId(hostname) ==
    IF hostname = NoHostname THEN SentinelHost
    ELSE ReplaceDots(StripTrailingSuffix(hostname))

\* C14 as stated: the host id of a request is its hostname with the trailing
\* platform suffix (if it ends with one) removed and every remaining `.`
\* replaced by `_dot_`, `___undefined` for an absent or empty hostname; it
\* never contains `.`.
C14_Original ==
    \A r \in Reqs :
        Recording(req[r]) => /\ req[r].hostId = SuffixAnchoredHostId(req[r].body.hostname)
                             /\ DOT \notin Range(req[r].hostId)

\* What does hold of every host id: it holds no `.`
HostIdHasNoDot == \A r \in Reqs : Recording(req[r]) => DOT \notin Range(req[r].hostId)

\* C15 as stated: no store write replaces a Host Counter by a smaller value,
\* under any interleaving of any number of concurrent Recorder requests.
C15_Original ==
    [][\A h \in Hosts :
         counter[h].exists => /\ counter'[h].exists
                              /\ counter'[h].val >= counter[h].val]_vars

\* C16 as stated: after every store write the plugin set of users/{hostId} is
\* a superset of what it was before, under any interleaving of concurrent
\* Recorder requests for the host.
C16_Original ==
    [][\A h \in Hosts :
         users[h].exists =>
            /\ users'[h].exists
            /\ Range(users[h].pluginNames) \subseteq Range(users'[h].pluginNames)]_vars

\* The request has written its Host Counter
CounterWritten(rec) ==
    /\ Recording(rec)
    /\ "installDate" \in Range(rec.steps)
    /\ "counter" \notin rec.failed

\* C17: when two concurrent Recorder requests for a host have both read the
\* same Host Counter snapshot c and both written, the counter is left at c + 1
\* and not c + 2: one increment is lost.
C17_LostIncrement ==
    \A r, q \in Reqs :
        (/\ r # q
         /\ CounterWritten(req[r]) /\ CounterWritten(req[q])
         /\ req[r].hostId = req[q].hostId
         /\ req[r].read = req[q].read)
            => counter[req[r].hostId] = Val(NextCount(req[r].read))

\* After a first call, two requests both read counter = 1 and both completed:
\* three calls in all, the counter is 2
C17_Witness ==
    \E r, q \in Reqs :
        /\ r # q
        /\ CounterWritten(req[r]) /\ CounterWritten(req[q])
        /\ req[r].pc = "done" /\ req[q].pc = "done"
        /\ req[r].hostId = req[q].hostId
        /\ req[r].read = Val(1) /\ req[q].read = Val(1)
        /\ failures = 0
        /\ recvCount[req[r].hostId] = 3
        /\ counter[req[r].hostId] = Val(2)

\* The requests of two slots have both written the Daily Summary of one date
SummaryWrittenTwice ==
    \E r, q \in Reqs :
        /\ r # q
        /\ req[r].wrote.exists /\ req[q].wrote.exists
        /\ ToISODate(req[r].snow) = ToISODate(req[q].snow)

\* C18 as stated, for requests that do not overlap: the Daily Summary of a
\* date is written at most once, that is, every write of summary/{date} lands
\* on an absent path.
C18_Original ==
    [][\A r \in Reqs :
         (~req[r].wrote.exists /\ req'[r].wrote.exists)
            => ~summary[ToISODate(req'[r].snow)].exists]_vars

\* C19: a GET Reader request whose counter fetch rejects, or that finds no
\* counter mapping in the store, is answered 500 with the serialized error and
\* writes no Daily Summary.
C19_ReaderWithoutCounters ==
    \A r \in Reqs :
        (/\ req[r].kind = "reader" /\ req[r].method = "GET" /\ req[r].pc = "done"
         /\ (req[r].counters = NoCounters \/ CounterMapping = NoCounters))
            => /\ req[r].status = 500
               /\ req[r].result = "unexpectedWithError"
               /\ req[r].wrote = NoSummary
               /\ "summary" \notin req[r].failed

\* The counter fetch rejected while the store holds counters
C19_Witness ==
    \E r \in Reqs : /\ req[r].kind = "reader" /\ req[r].method = "GET"
                    /\ req[r].pc = "done"
                    /\ req[r].status = 500
                    /\ req[r].touched
                    /\ failures >= 1
                    /\ CounterMapping # NoCounters

\* The Reader found no counter mapping, every store operation succeeding
ReaderFoundNoCounters ==
    \E r \in Reqs : /\ req[r].kind = "reader" /\ req[r].method = "GET"
                    /\ req[r].pc = "done"
                    /\ req[r].status = 500
                    /\ req[r].touched
                    /\ failures = 0
                    /\ CounterMapping = NoCounters

\* C20 as stated, in the form a finite run refutes: a handler invocation that
\* has returned has sent a response, whatever the method, the body and the
\* failures; a Recorder request whose method is not POST is answered and
\* touches neither the store nor the fallback endpoint.
C20_Original ==
    \A r \in Reqs :
        req[r].pc = "done"
            => /\ req[r].status # 0
               /\ (req[r].kind = "recorder" /\ req[r].method # "POST")
                     => /\ ~req[r].touched
                        /\ req[r].spc = "none"
                        /\ req[r].gas = <<>>

\* What does hold: every invocation but a Recorder one with another method
\* than POST has sent its response when its handler returns, and that one
\* performs no store operation and no fallback call.
AnsweredUnlessRecorderOtherMethod ==
    \A r \in Reqs :
        req[r].pc = "done"
            => IF req[r].kind = "recorder" /\ req[r].method # "POST"
               THEN /\ req[r].status = 0
                    /\ ~req[r].touched
                    /\ req[r].spc = "none"
                    /\ req[r].gas = <<>>
               ELSE req[r].status \in {200, 400, 500}

====
